---- MODULE Spec2Model ----
(***************************************************************************)
(* Session store of the audio bot (src/database.py, src/bot.py).           *)
(*                                                                         *)
(* The bot keeps one session per user either in the user_sessions table    *)
(* of the durable backend (DatabaseManager) or in the dictionary of the    *)
(* in-memory fallback (InMemorySessionManager); db.is_connected, fixed at  *)
(* start-up, selects the branch in every bot-level function.  `proc` is    *)
(* the bot process, started with either value of db.is_connected.  To      *)
(* compare the two backends, BackendsSpec runs a fallback process (`proc`) *)
(* and a connected process (`peer`) side by side and delivers every        *)
(* handler to both with the same inputs at the same clock time.            *)
(*                                                                         *)
(* Time is counted in minutes.  The clock reads made inside one            *)
(* synchronous store call all return the same value `now`.                 *)
(*                                                                         *)
(* `run` is the record of the last pipeline run (process_audio) or of the   *)
(* run in flight, `dl` the download of an upload in progress               *)
(* (DownloadManager) and `prog` the state of its progress callback.        *)
(* PipelineSpec is the bot with the settings commands and the pipeline,    *)
(* DownloadSpec an upload attempt by attempt, FaultSpec the connected      *)
(* process when a backend request can raise, ProgressSpec one download     *)
(* report by report, EqSpec and EffectSpec the /eq command and the effect  *)
(* buttons on what a user can send, ConfirmSpec a run suspended at its     *)
(* stages beside a cancel, MissingFileSpec the confirm after an upload was *)
(* removed from disk, and TwoUsersSpec the handlers of two users.          *)
(* EffectsStageSpec, EqStageSpec and ConvertSpec run one stage of          *)
(* AdvancedAudioProcessor on the settings of a session, NormalizeSpec the  *)
(* Normalize button beside the runs, LoopSpec the cleanup task and the     *)
(* handlers as coroutines of the one event loop, and InFlightSpec two      *)
(* configuration handlers of a user in flight together.                    *)
(***************************************************************************)
EXTENDS Integers, Sequences, FiniteSets, TLC

VARIABLES now, proc, call, obs, taskPc, peer, peerObs, run, dl, prog

vars == <<now, proc, call, obs, taskPc, peer, peerObs, run, dl, prog>>

-----------------------------------------------------------------------------
(* Bounds of the model *)

MaxTime == 6
MaxRows == 2
MaxFiles == 2
MaxLeftovers == 0
MaxClock == 7
TotalChunks == 3
MaxTokens == 2

(* Program constants *)

\* timedelta(minutes=5)
TTL == 5

\* stop_after_attempt(5)
MaxAttempts == 5

\* wait_exponential(multiplier=1, min=4, max=60), in seconds
BackoffMultiplier == 1
BackoffMin == 4
BackoffMax == 60

\* if current_time - last_update_time < 2, in seconds
ProgressInterval == 2

\* if not (20 <= freq <= 40000), if not (-20 <= gain <= 20)
FreqMin == 20
FreqMax == 40000
GainMin == -20
GainMax == 20

\* The effects apply_pedalboard_effects knows and the buttons offer
AllowedEffects ==
  {"reverb", "chorus", "phaser", "distortion", "compressor", "delay",
   "bitcrush", "limiter"}

\* The user the handlers run for
Users == {1}

\* Python's None
None == [none |-> TRUE]

\* Values the handlers receive from the user
Formats == {"flac"}
Bitrates == {"128k"}
FileNames == {[file_name |-> "song.mp3"]}

\* Attributes the class Config defines
ConfigAttributes ==
  {"BOT_TOKEN", "API_ID", "API_HASH", "FORCE_SUB_CHANNEL", "BOT_NAME",
   "BOT_USERNAME", "DOWNLOAD_LOCATION", "MAX_FILE_SIZE", "DEFAULT_BITRATE",
   "DEFAULT_SAMPLE_RATE", "DEFAULT_CHANNELS", "SUPPORTED_FORMATS"}

\* downloads/{user_id}_{timestamp}_{stage}.{ext}
Path(u, t, stage) == [user |-> u, ts |-> t, stage |-> stage]

\* The settings dictionary of a new session (speed 1.0 written as 1)
DefaultSettings ==
  [format |-> "mp3", bitrate |-> "320k", sample_rate |-> 48000,
   channels |-> 2, bass_boost |-> 0, normalize |-> FALSE, fade_in |-> 0,
   fade_out |-> 0, speed |-> 1, eq |-> <<>>, effects |-> <<>>]

\* The value the user_sessions table gives the settings column of a row
\* inserted without one
DbColumnDefaultSettings == DefaultSettings

-----------------------------------------------------------------------------
(* Python dictionaries as functions *)

\* d[k] = v
SetItem(d, k, v) == [x \in DOMAIN d \cup {k} |-> IF x = k THEN v ELSE d[x]]

\* d.update(upd)
DictUpdate(d, upd) ==
  [x \in DOMAIN d \cup DOMAIN upd |-> IF x \in DOMAIN upd THEN upd[x] ELSE d[x]]

\* del d[k]
DelItem(d, k) == [x \in DOMAIN d \ {k} |-> d[x]]

\* A process: its configuration, the fallback dictionary, the table, the
\* next generated row id and the files under downloads/
World(connected) ==
  [connected |-> connected, sessions |-> <<>>, rows |-> {}, nextId |-> 1,
   files |-> {}]

-----------------------------------------------------------------------------
(* InMemorySessionManager *)

\* get_session as it would be if a session were still returned at the
\* instant of its expires_at (>= for >)
get_session_at_expiry(w, u, t) ==
  IF u \in DOMAIN w.sessions /\ w.sessions[u].expires_at >= t
    THEN [w |-> w, ret |-> w.sessions[u]]
    ELSE IF u \in DOMAIN w.sessions
      THEN [w |-> [w EXCEPT !.sessions = DelItem(@, u)], ret |-> None]
      ELSE [w |-> w, ret |-> None]

get_session(w, u, t) ==
  IF u \in DOMAIN w.sessions /\ w.sessions[u].expires_at > t
    THEN [w |-> w, ret |-> w.sessions[u]]
    ELSE IF u \in DOMAIN w.sessions
      THEN [w |-> [w EXCEPT !.sessions = DelItem(@, u)], ret |-> None]
      ELSE [w |-> w, ret |-> None]

create_session(w, u, t) ==
  LET session == [user_id |-> u, file_path |-> None,
                  original_filename |-> None, settings |-> DefaultSettings,
                  updated_at |-> t, expires_at |-> t + TTL]
  IN [w |-> [w EXCEPT !.sessions = SetItem(@, u, session)], ret |-> session]

update_session(w, u, updates, t) ==
  IF u \in DOMAIN w.sessions
    THEN LET merged == DictUpdate(w.sessions[u], updates)
             stamped == [merged EXCEPT !.updated_at = t,
                                       !.expires_at = t + TTL]
         IN [w |-> [w EXCEPT !.sessions = SetItem(@, u, stamped)],
             ret |-> TRUE]
    ELSE [w |-> w, ret |-> FALSE]

\* delete_session as it would be if it emptied the dictionary
delete_every_session(w, u) ==
  [w |-> [w EXCEPT !.sessions = <<>>], ret |-> u \in DOMAIN w.sessions]

delete_session(w, u) ==
  IF u \in DOMAIN w.sessions
    THEN [w |-> [w EXCEPT !.sessions = DelItem(@, u)], ret |-> TRUE]
    ELSE [w |-> w, ret |-> FALSE]

cleanup_expired(w, t) ==
  LET expired == {u \in DOMAIN w.sessions : w.sessions[u].expires_at < t}
  IN [w |-> [w EXCEPT !.sessions = [u \in DOMAIN @ \ expired |-> @[u]]],
      ret |-> Cardinality(expired)]

-----------------------------------------------------------------------------
(* DatabaseManager.  ok = FALSE: the request raises, the method logs the   *)
(* exception and returns its failure value.                                *)

\* get_user_session as it would be without the expires_at filter of the
\* select
db_get_user_session_any_age(w, u, t, ok) ==
  LET mine == {r \in w.rows : r.user_id = u}
      newest == {r \in mine : \A q \in mine : q.updated_at <= r.updated_at}
  IN IF ok /\ mine # {} THEN newest ELSE {None}

\* The rows the select may return: a live row of the user with the greatest
\* updated_at (limit 1; rows that tie are returned in no defined order)
db_get_user_session(w, u, t, ok) ==
  LET live == {r \in w.rows : r.user_id = u /\ r.expires_at > t}
      newest == {r \in live : \A q \in live : q.updated_at <= r.updated_at}
  IN IF ok /\ live # {} THEN newest ELSE {None}

db_create_user_session(w, u, t, ok) ==
  LET row == [id |-> w.nextId, user_id |-> u, file_path |-> None,
              original_filename |-> None,
              settings |-> DbColumnDefaultSettings,
              updated_at |-> t, expires_at |-> t + TTL]
  IN IF ok
       THEN [w |-> [w EXCEPT !.rows = @ \cup {row}, !.nextId = @ + 1],
             ret |-> row]
       ELSE [w |-> w, ret |-> None]

db_update_user_session(w, session_id, updates, ok) ==
  LET hit == {r \in w.rows : r.id = session_id}
  IN IF ok
       THEN [w |-> [w EXCEPT !.rows = (@ \ hit) \cup
                                      {DictUpdate(r, updates) : r \in hit}],
             ret |-> hit # {}]
       ELSE [w |-> w, ret |-> FALSE]

db_delete_user_session(w, session_id, ok) ==
  IF ok
    THEN [w |-> [w EXCEPT !.rows = {r \in @ : r.id # session_id}],
          ret |-> TRUE]
    ELSE [w |-> w, ret |-> FALSE]

db_cleanup_expired_sessions(w, t, ok) ==
  LET expired == {r \in w.rows : r.expires_at < t}
  IN IF ok
       THEN [w |-> [w EXCEPT !.rows = @ \ expired],
             ret |-> Cardinality(expired)]
       ELSE [w |-> w, ret |-> 0]

-----------------------------------------------------------------------------
(* Bot-level session functions (src/bot.py).  Each returns the set of its  *)
(* possible outcomes [w, ret, raised]: the process afterwards, the value   *)
(* returned and whether a backend request raised.                          *)

create_default_session(u) ==
  [user_id |-> u, file_path |-> None, original_filename |-> None,
   settings |-> DefaultSettings]

get_user_session(w, u, t, ok1, ok2) ==
  IF w.connected
    THEN { IF s # None
             THEN [w |-> w, ret |-> s, raised |-> FALSE]
             ELSE LET c == db_create_user_session(w, u, t, ok2)
                  IN [w |-> c.w,
                      ret |-> IF c.ret # None THEN c.ret
                              ELSE create_default_session(u),
                      raised |-> ~ok1 \/ ~ok2]
           : s \in db_get_user_session(w, u, t, ok1) }
    ELSE LET g == get_session(w, u, t)
         IN IF g.ret # None
              THEN {[w |-> g.w, ret |-> g.ret, raised |-> FALSE]}
              ELSE LET c == create_session(g.w, u, t)
                   IN {[w |-> c.w, ret |-> c.ret, raised |-> FALSE]}

update_user_session(w, u, updates, t, ok1, ok2) ==
  IF w.connected
    THEN { IF s # None
             THEN LET r == db_update_user_session(w, s.id, updates, ok2)
                  IN [w |-> r.w, ret |-> r.ret, raised |-> ~ok2]
             ELSE [w |-> w, ret |-> FALSE, raised |-> ~ok1]
           : s \in db_get_user_session(w, u, t, ok1) }
    ELSE LET r == update_session(w, u, updates, t)
         IN {[w |-> r.w, ret |-> r.ret, raised |-> FALSE]}

\* if file_path and os.path.exists(file_path): os.remove(file_path), whose
\* exception is swallowed (rm_ok = FALSE)
remove_session_file(w, session, rm_ok) ==
  IF session.file_path # None /\ session.file_path \in w.files /\ rm_ok
    THEN [w EXCEPT !.files = @ \ {session.file_path}]
    ELSE w

\* delete_user_session as it would be if it removed nothing
keep_user_session(w, u, t, ok1, ok2, rm_ok) ==
  {[w |-> w, ret |-> None, raised |-> FALSE]}

delete_user_session(w, u, t, ok1, ok2, rm_ok) ==
  IF w.connected
    THEN { IF s # None
             THEN LET w1 == remove_session_file(w, s, rm_ok)
                      r == db_delete_user_session(w1, s.id, ok2)
                  IN [w |-> r.w, ret |-> None, raised |-> ~ok2]
             ELSE [w |-> w, ret |-> None, raised |-> ~ok1]
           : s \in db_get_user_session(w, u, t, ok1) }
    ELSE LET g == get_session(w, u, t)
         IN IF g.ret # None
              THEN LET w1 == remove_session_file(g.w, g.ret, rm_ok)
                       r == delete_session(w1, u)
                   IN {[w |-> r.w, ret |-> None, raised |-> FALSE]}
              ELSE {[w |-> g.w, ret |-> None, raised |-> FALSE]}

\* The body of the cleanup loop after its sleep
sweep_expired(w, t, ok) ==
  IF w.connected
    THEN LET r == db_cleanup_expired_sessions(w, t, ok)
         IN {[w |-> r.w, ret |-> r.ret, raised |-> ~ok]}
    ELSE LET r == cleanup_expired(w, t)
         IN {[w |-> r.w, ret |-> r.ret, raised |-> FALSE]}

-----------------------------------------------------------------------------
(* Handlers.  Each returns the set of outcomes [w, got, ret, raised]: got  *)
(* is the session get_user_session returned to the handler (None when the  *)
(* handler does not call it), ret the value of its update_user_session     *)
(* call (FALSE when it makes none).                                        *)

Outcome(w, got, ret, raised) ==
  [w |-> w, got |-> got, ret |-> ret, raised |-> raised]

\* An upload: the download to downloads/{user}_{timestamp}_input.{ext}
\* (dl_ok: it produced the file), then the session is fetched and the file
\* recorded in it
\* handle_audio after download_with_progress has returned file_path: None
\* ("Download failed", return) or the path of the file now on disk, which
\* is recorded in the session fetched at time t
after_download(w, u, file_name, file_path, t, ok) ==
  IF file_path = None
    THEN {Outcome(w, None, FALSE, FALSE)}
    ELSE LET w1 == [w EXCEPT !.files = @ \cup {file_path}]
             updates == [file_path |-> file_path,
                         original_filename |-> file_name]
         IN UNION {
              { Outcome(r.w, g.ret, r.ret, g.raised \/ r.raised)
                : r \in update_user_session(g.w, u, updates, t, ok[3], ok[4]) }
              : g \in get_user_session(w1, u, t, ok[1], ok[2]) }

handle_audio(w, u, file_name, t, dl_ok, ok) ==
  after_download(w, u, file_name,
                 IF dl_ok THEN Path(u, t, "input") ELSE None, t, ok)

handle_format_selection(w, u, format_code, t, ok) ==
  { Outcome(r.w, None, r.ret, r.raised)
    : r \in update_user_session(w, u, [settings |-> [format |-> format_code]],
                                t, ok[1], ok[2]) }

handle_bitrate_selection(w, u, bitrate, t, ok) ==
  UNION {
    LET settings == SetItem(g.ret.settings, "bitrate", bitrate)
    IN { Outcome(r.w, g.ret, r.ret, g.raised \/ r.raised)
         : r \in update_user_session(g.w, u, [settings |-> settings], t,
                                     ok[3], ok[4]) }
    : g \in get_user_session(w, u, t, ok[1], ok[2]) }

\* continue_editing: the handler only fetches the session
continue_editing(w, u, t, ok) ==
  { Outcome(g.w, g.ret, FALSE, g.raised)
    : g \in get_user_session(w, u, t, ok[1], ok[2]) }

\* /cancel and the cancel_operation button
cancel_command(w, u, t, ok, rm_ok) ==
  { Outcome(r.w, None, FALSE, r.raised)
    : r \in delete_user_session(w, u, t, ok[1], ok[2], rm_ok) }

\* settings.get(k, default)
DictGet(d, k, default) == IF k \in DOMAIN d THEN d[k] ELSE default

\* A token of the /eq text as eq_pattern reads it:
\* --{freq_val}{freq_unit}hz {sign}{gain_val}db
Token(freq_val, freq_unit, sign, gain_val) ==
  [freq_val |-> freq_val, freq_unit |-> freq_unit, sign |-> sign,
   gain_val |-> gain_val]

\* eq_pattern = r'--(\d+\.?\d*)([kmKM]?)hz\s+([+-]\d+\.?\d*)db': the unit is
\* k or m in either case or absent, and the gain carries its sign
eq_pattern(tok) ==
  /\ tok.freq_unit \in {"", "k", "m", "K", "M"}
  /\ tok.sign \in {"+", "-"}

\* re.findall(eq_pattern, message.text, re.IGNORECASE)
findall(text) == SelectSeq(text, eq_pattern)

\* freq_unit.lower()
lower(freq_unit) ==
  CASE freq_unit = "K" -> "k"
    [] freq_unit = "M" -> "m"
    [] OTHER -> freq_unit

\* freq = float(freq_val); if freq_unit.lower() == 'k': freq *= 1000
freq_of(m) == IF lower(m.freq_unit) = "k" THEN m.freq_val * 1000 ELSE m.freq_val

\* gain = float(gain_val), the sign being part of gain_val
gain_of(m) == IF m.sign = "-" THEN 0 - m.gain_val ELSE m.gain_val

\* The frequency test as it would be with the lower limit excluded
freq_above_min(freq) == FreqMin < freq /\ freq <= FreqMax

\* The frequency test as it would be if every frequency passed
freq_any(freq) == TRUE

\* 20 <= freq <= 40000
freq_in_range(freq) == FreqMin <= freq /\ freq <= FreqMax

\* The gain test as it would be if every gain passed
gain_any(gain) == TRUE

\* -20 <= gain <= 20
gain_in_range(gain) == GainMin <= gain /\ gain <= GainMax

\* The loop over the matches: the first value out of range ends the command
RECURSIVE parse_matches(_, _)
parse_matches(matches, eq_settings) ==
  IF matches = <<>>
    THEN [status |-> "ok", eq_settings |-> eq_settings]
    ELSE LET freq == freq_of(Head(matches))
             gain == gain_of(Head(matches))
         IN IF ~freq_in_range(freq)
              THEN [status |-> "freq_out_of_range", eq_settings |-> eq_settings]
            ELSE IF ~gain_in_range(gain)
              THEN [status |-> "gain_out_of_range", eq_settings |-> eq_settings]
            ELSE parse_matches(Tail(matches),
                               Append(eq_settings,
                                      [freq |-> freq, gain |-> gain, q |-> 1]))

\* The try block up to the update: the usage message when nothing matches,
\* else the bands of the matches
parse_eq(text) ==
  IF findall(text) = <<>>
    THEN [status |-> "usage", eq_settings |-> <<>>]
    ELSE parse_matches(findall(text), <<>>)

\* /eq as it would be if the bands of the command were added to the bands
\* the session holds
eq_command_appending(w, u, text, t, ok) ==
  UNION {
    LET parsed == parse_eq(text)
        settings == SetItem(g.ret.settings, "eq",
                            DictGet(g.ret.settings, "eq", <<>>)
                              \o parsed.eq_settings)
    IN IF g.ret.file_path = None \/ parsed.status # "ok"
         THEN {Outcome(g.w, g.ret, FALSE, g.raised)}
         ELSE { Outcome(r.w, g.ret, r.ret, g.raised \/ r.raised)
                : r \in update_user_session(g.w, u, [settings |-> settings],
                                            t, ok[3], ok[4]) }
    : g \in get_user_session(w, u, t, ok[1], ok[2]) }

\* /eq: the session must have a file; the bands parsed from the text
\* replace settings['eq'] unless the command is rejected
eq_command(w, u, text, t, ok) ==
  UNION {
    LET parsed == parse_eq(text)
        settings == SetItem(g.ret.settings, "eq", parsed.eq_settings)
    IN IF g.ret.file_path = None \/ parsed.status # "ok"
         THEN {Outcome(g.w, g.ret, FALSE, g.raised)}
         ELSE { Outcome(r.w, g.ret, r.ret, g.raised \/ r.raised)
                : r \in update_user_session(g.w, u, [settings |-> settings],
                                            t, ok[3], ok[4]) }
    : g \in get_user_session(w, u, t, ok[1], ok[2]) }

\* The membership test as it would be if no name were ever found
in_no_list(x, list) == FALSE

\* effect in effects
InList(x, list) == \E i \in DOMAIN list : list[i] = x

handle_effect_selection(w, u, effect, t, ok) ==
  UNION {
    LET effects == DictGet(g.ret.settings, "effects", <<>>)
        settings == SetItem(g.ret.settings, "effects", Append(effects, effect))
    IN IF ~InList(effect, effects)
         THEN { Outcome(r.w, g.ret, r.ret, g.raised \/ r.raised)
                : r \in update_user_session(g.w, u, [settings |-> settings],
                                            t, ok[3], ok[4]) }
         ELSE {Outcome(g.w, g.ret, FALSE, g.raised)}
    : g \in get_user_session(w, u, t, ok[1], ok[2]) }

-----------------------------------------------------------------------------
(* The pipeline run of process_audio (src/bot.py) over the stages of       *)
(* AdvancedAudioProcessor (src/audio_processor.py).                        *)

\* How a stage call ends: "ok" (the output file is written, True / exit
\* status 0), "fail" (False, nothing written) or "partial" (False, with the
\* output file left behind by the failed write)
StageOutcomes == {"ok", "fail", "partial"}

\* The outcomes of the four stages and of client.send_audio (send = FALSE:
\* it raises) in one run
StageResults ==
  [eq : StageOutcomes, effects : StageOutcomes, norm : StageOutcomes,
   conv : StageOutcomes, send : BOOLEAN]

\* The stages the settings enable: settings.get('eq'), settings.get(
\* 'effects') and settings.get('normalize') are truthy; conversion always
EnabledStages(settings) ==
  {"convert"}
    \cup (IF DictGet(settings, "eq", <<>>) # <<>> THEN {"eq"} ELSE {})
    \cup (IF DictGet(settings, "effects", <<>>) # <<>>
            THEN {"effects"} ELSE {})
    \cup (IF DictGet(settings, "normalize", FALSE) THEN {"normalize"} ELSE {})

\* The locals of a run before any stage: the files on disk, current_file,
\* temp_files, and the record of the stage calls and of the files written
StartRun(files, input_file) ==
  [files |-> files, current_file |-> input_file, temp_files |-> {},
   invoked |-> <<>>, written |-> {}]

\* One stage call on current_file.  A stage before conversion that succeeds
\* becomes current_file and is appended to temp_files.
run_stage(st, stage, output_file, outcome) ==
  LET wrote == outcome \in {"ok", "partial"}
      chained == outcome = "ok" /\ stage # "convert"
  IN [files |-> IF wrote THEN st.files \cup {output_file} ELSE st.files,
      written |-> IF wrote THEN st.written \cup {output_file}
                  ELSE st.written,
      invoked |-> Append(st.invoked,
                         [stage |-> stage, input_file |-> st.current_file,
                          output_file |-> output_file,
                          success |-> outcome = "ok"]),
      current_file |-> IF chained THEN output_file ELSE st.current_file,
      temp_files |-> IF chained THEN st.temp_files \cup {output_file}
                     ELSE st.temp_files]

\* The removal as it would be if it took the uploads with the temporary
\* files
remove_temp_files_and_input(files, temp_files) ==
  {f \in files \ temp_files : f.stage # "input"}

\* for f in temp_files: if os.path.exists(f): os.remove(f)
remove_temp_files(files, temp_files) == files \ temp_files

\* What a run leaves: the files on disk and the record of the run
EndRun(st, files, exit, input_file, settings) ==
  [files |-> files,
   run |-> [exit |-> exit, invoked |-> st.invoked, written |-> st.written,
            input_file |-> input_file, enabled |-> EnabledStages(settings),
            delivered |-> exit = "delivered",
            reported |-> exit \in {"no_file", "eq_failed", "convert_failed",
                                   "exception"}]]

\* The try block of process_audio for a session whose input file exists
pipeline(files, u, t, input_file, settings, res) ==
  LET enabled == EnabledStages(settings)
      st0 == StartRun(files, input_file)
      st1 == IF "eq" \in enabled
               THEN run_stage(st0, "eq", Path(u, t, "eq"), res.eq) ELSE st0
      st2 == IF "effects" \in enabled
               THEN run_stage(st1, "effects", Path(u, t, "effects"),
                              res.effects)
               ELSE st1
      st3 == IF "normalize" \in enabled
               THEN run_stage(st2, "normalize", Path(u, t, "norm"), res.norm)
               ELSE st2
      output_file == Path(u, t, "output")
      st4 == run_stage(st3, "convert", output_file, res.conv)
  IN IF "eq" \in enabled /\ res.eq # "ok"
       THEN EndRun(st1, st1.files, "eq_failed", input_file, settings)
     ELSE IF res.conv # "ok"
       THEN EndRun(st4, remove_temp_files(st4.files, st4.temp_files),
                   "convert_failed", input_file, settings)
     ELSE IF ~res.send
       THEN EndRun(st4, st4.files, "exception", input_file, settings)
     ELSE EndRun(st4,
                 remove_temp_files(st4.files \ {output_file}, st4.temp_files),
                 "delivered", input_file, settings)

\* confirm_process: the outcomes [w, got, ret, raised, run]
process_audio(w, u, t, res, ok, rm_ok) ==
  UNION {
    LET input_file == g.ret.file_path
        settings == g.ret.settings
    IN IF input_file = None \/ input_file \notin g.w.files
         THEN { [w |-> d.w, got |-> g.ret, ret |-> FALSE,
                 raised |-> g.raised \/ d.raised,
                 run |-> EndRun(StartRun(d.w.files, input_file), d.w.files,
                                "no_file", input_file, settings).run]
                : d \in delete_user_session(g.w, u, t, ok[3], ok[4], rm_ok) }
         ELSE LET p == pipeline(g.w.files, u, t, input_file, settings, res)
              IN { [w |-> [g.w EXCEPT !.files = p.files], got |-> g.ret,
                    ret |-> FALSE, raised |-> g.raised, run |-> p.run] }
    : g \in get_user_session(w, u, t, ok[1], ok[2]) }

\* process_audio up to its try block, where the handler is suspended at
\* every stage: without the input file the run ends there ("no_file"), with
\* it the run is in flight ("running") with the locals input_file, settings
\* and timestamp
begin_process_audio(w, u, t, ok, rm_ok) ==
  UNION {
    LET input_file == g.ret.file_path
        settings == g.ret.settings
    IN IF input_file = None \/ input_file \notin g.w.files
         THEN { [w |-> d.w, got |-> g.ret, ret |-> FALSE,
                 raised |-> g.raised \/ d.raised,
                 run |-> EndRun(StartRun(d.w.files, input_file), d.w.files,
                                "no_file", input_file, settings).run]
                : d \in delete_user_session(g.w, u, t, ok[3], ok[4], rm_ok) }
         ELSE { [w |-> g.w, got |-> g.ret, ret |-> FALSE,
                 raised |-> g.raised,
                 run |-> [exit |-> "running", user |-> u, timestamp |-> t,
                          input_file |-> input_file, settings |-> settings,
                          cancelled |-> FALSE]] }
    : g \in get_user_session(w, u, t, ok[1], ok[2]) }

-----------------------------------------------------------------------------
(* DownloadManager.download_with_retry (src/download_manager.py) under the *)
(* tenacity retry decorator.                                               *)

\* The exception classes retry_if_exception_type names
TransientErrors == {"TimeoutError", "ConnectionError", "FloodWait"}

\* A mandated wait carried by a FloodWait, in seconds
FloodWaits == {10}

\* The sizes in bytes of a file download_media leaves on disk: the transfer
\* ended before any byte was written, or the file is complete
FileSizes == {0, 1024}

\* How one call of client.download_media ends: a file of some size is on
\* disk, no file is there (None is returned), or an exception of a class is
\* raised
AttemptOutcomes ==
  {[kind |-> k, value |-> 0]
     : k \in {"missing", "TimeoutError", "ConnectionError", "ValueError"}}
    \cup {[kind |-> "file", value |-> n] : n \in FileSizes}
    \cup {[kind |-> "FloodWait", value |-> n] : n \in FloodWaits}

\* The outcome is a raised exception
Raises(outcome) == outcome.kind \notin {"file", "missing"}

\* The decorator as it would be if it retried after every exception
retry_if_exception(kind) == TRUE

\* retry=retry_if_exception_type((TimeoutError, ConnectionError, FloodWait))
retry_if_exception_type(kind) == kind \in TransientErrors

\* The decorator as it would be if it gave up one attempt earlier
stop_one_attempt_earlier(attempt_number) == attempt_number >= MaxAttempts - 1

\* stop=stop_after_attempt(5)
stop_after_attempt(attempt_number) == attempt_number >= MaxAttempts

Min(a, b) == IF a <= b THEN a ELSE b

Max(a, b) == IF a >= b THEN a ELSE b

\* The exponent wait_exponential uses for the first attempt: 0 where the
\* library computes exp_base ** (attempt_number - 1), 1 where it computes
\* exp_base ** attempt_number
FirstExponents == {0, 1}

\* wait=wait_exponential(multiplier=1, min=4, max=60):
\* max(min, min(multiplier * 2 ** exponent, max))
wait_exponential(attempt_number, first_exponent) ==
  Max(BackoffMin,
      Min(BackoffMultiplier * 2 ^ (attempt_number - 1 + first_exponent),
          BackoffMax))

\* One attempt: the call, the sleep of the FloodWait handler before it
\* re-raises (flood), then the decision of the decorator: retry after its
\* own wait (backoff) or give up
attempt(attempt_number, outcome, first_exponent) ==
  LET retried == /\ Raises(outcome)
                 /\ retry_if_exception_type(outcome.kind)
                 /\ ~stop_after_attempt(attempt_number)
  IN [outcome |-> outcome,
      flood |-> IF outcome.kind = "FloodWait" THEN outcome.value ELSE 0,
      retried |-> retried,
      backoff |-> IF retried
                    THEN wait_exponential(attempt_number, first_exponent)
                    ELSE 0]

-----------------------------------------------------------------------------
(* The progress callback of DownloadManager.download_with_progress.  p is  *)
(* the closure of one download: the event-loop clock (time, in seconds),   *)
(* last_update_time, the bytes the transport has reported (current), the   *)
(* last report made to the callback and whether it went on to edit_text    *)
(* (called), and the clock times of the reports that did (forwarded).      *)

\* The callback as it would be without the return of line 86
never_throttled(current_time, last_update_time) == FALSE

\* if current_time - last_update_time < 2: return
throttled(current_time, last_update_time) ==
  current_time - last_update_time < ProgressInterval

\* progress(current, total) at the clock time p.time; an exception of
\* edit_text is swallowed and changes nothing
progress(p, current, total) ==
  IF throttled(p.time, p.last_update_time)
    THEN [p EXCEPT !.current = current,
                   !.last = [current |-> current, total |-> total,
                             time |-> p.time, called |-> FALSE]]
    ELSE [p EXCEPT !.current = current,
                   !.last_update_time = p.time,
                   !.last = [current |-> current, total |-> total,
                             time |-> p.time, called |-> TRUE],
                   !.forwarded = Append(@, p.time)]

-----------------------------------------------------------------------------
(* State machine *)

\* The sessions a process stores for a user
Stored(w, u) ==
  IF w.connected
    THEN {r \in w.rows : r.user_id = u}
    ELSE {w.sessions[v] : v \in DOMAIN w.sessions \cap {u}}

\* The stored sessions get_user_session would return as they are
Live(w, u, t) == {s \in Stored(w, u) : s.expires_at > t}

\* What a handler finds stored for its user: a session get_user_session
\* returns as it is ("live"), only sessions past expires_at ("expired"), or
\* nothing ("none")
Found(w, u, t) ==
  IF Live(w, u, t) # {} THEN "live"
  ELSE IF Stored(w, u) # {} THEN "expired"
  ELSE "none"

\* The handler that ran last, its user and input, and what it found
Call(op, u, arg, w, t) ==
  [op |-> op, user |-> u, arg |-> arg, found |-> Found(w, u, t)]

\* What a handler shows: what it got and returned
Observe(out) == [got |-> out.got, ret |-> out.ret]

NoObs == [got |-> None, ret |-> FALSE]

\* No pipeline run has ended since the last handler or tick
NoRun == [exit |-> "none"]

\* No download is in progress
NoDownload ==
  [pc |-> "idle", user |-> 0, file_name |-> None, ts |-> 0,
   first_exponent |-> 0, tries |-> <<>>, file_path |-> None]

\* No report has been made to the callback
NoReport == [current |-> 0, total |-> TotalChunks, time |-> 0, called |-> FALSE]

\* No download_with_progress call has started
NoProgress ==
  [pc |-> "idle", time |-> 0, last_update_time |-> 0, current |-> 0,
   last |-> NoReport, forwarded |-> <<>>]

\* Which backend requests of a handler succeed (up to four requests): in
\* the runs checked here the backend answers every request
AllOk == [i \in 1..4 |-> TRUE]

Requests == {AllOk}

Init ==
  /\ now = 0
  /\ proc \in {World(FALSE), World(TRUE)}
  /\ call = Call("start", 0, None, proc, now)
  /\ obs = NoObs
  /\ taskPc = "try"
  /\ peer = World(TRUE)
  /\ peerObs = NoObs
  /\ run = NoRun
  /\ dl = NoDownload
  /\ prog = NoProgress

\* The bounds on the rows ever inserted and on the uploads on disk
Bounded(w) ==
  /\ w.nextId <= MaxRows + 1
  /\ Cardinality({f \in w.files : f.stage = "input"}) <= MaxFiles

\* One handler run in the process
Deliver(op, u, arg, outs) ==
  \E o \in outs :
    /\ Bounded(o.w)
    /\ proc' = o.w
    /\ call' = Call(op, u, arg, proc, now)
    /\ obs' = Observe(o)
    /\ run' = NoRun
    /\ UNCHANGED <<now, taskPc, peer, peerObs, dl, prog>>

HandleAudio ==
  \E u \in Users, file_name \in FileNames, dl_ok \in BOOLEAN, ok \in Requests :
    Deliver("handle_audio", u, file_name,
            handle_audio(proc, u, file_name, now, dl_ok, ok))

HandleFormatSelection ==
  \E u \in Users, format_code \in Formats, ok \in Requests :
    Deliver("handle_format_selection", u, format_code,
            handle_format_selection(proc, u, format_code, now, ok))

HandleBitrateSelection ==
  \E u \in Users, bitrate \in Bitrates, ok \in Requests :
    Deliver("handle_bitrate_selection", u, bitrate,
            handle_bitrate_selection(proc, u, bitrate, now, ok))

ContinueEditing ==
  \E u \in Users, ok \in Requests :
    Deliver("continue_editing", u, None,
            continue_editing(proc, u, now, ok))

CancelCommand ==
  \E u \in Users, ok \in Requests, rm_ok \in BOOLEAN :
    Deliver("cancel_command", u, rm_ok,
            cancel_command(proc, u, now, ok, rm_ok))

\* The outcomes of a sweep as a handler's
sweep_outcomes(w, t, ok) ==
  { Outcome(r.w, None, r.ret, r.raised) : r \in sweep_expired(w, t, ok) }

\* A direct call of the sweep
SweepExpired ==
  \E ok \in {TRUE} :
    Deliver("sweep_expired", 0, None, sweep_outcomes(proc, now, ok))

\* Time passes
Tick ==
  /\ now < MaxTime
  /\ now' = now + 1
  /\ call' = Call("tick", 0, None, World(FALSE), now)
  /\ obs' = NoObs
  /\ peerObs' = NoObs
  /\ run' = NoRun
  /\ UNCHANGED <<proc, taskPc, peer, dl, prog>>

\* cleanup_expired_sessions, one pass of `while True` up to the except
\* clause: evaluating Config.CLEANUP_INTERVAL_SECONDS raises AttributeError
\* when Config has no such attribute; otherwise the task sleeps and sweeps,
\* and drops the count the sweep returns
CleanupTaskTry ==
  /\ taskPc = "try"
  /\ IF "CLEANUP_INTERVAL_SECONDS" \in ConfigAttributes
       THEN \E ok \in {TRUE} :
              Deliver("cleanup_task", 0, None,
                      { Outcome(r.w, None, FALSE, r.raised)
                        : r \in sweep_expired(proc, now, ok) })
       ELSE /\ taskPc' = "except"
            /\ UNCHANGED <<now, proc, call, obs, peer, peerObs, run, dl, prog>>

\* except Exception: logger.exception(...), and the loop starts over
CleanupTaskExcept ==
  /\ taskPc = "except"
  /\ taskPc' = "try"
  /\ UNCHANGED <<now, proc, call, obs, peer, peerObs, run, dl, prog>>

Handlers ==
  \/ HandleAudio
  \/ HandleFormatSelection
  \/ HandleBitrateSelection
  \/ ContinueEditing
  \/ CancelCommand

\* The store under any sequence of handlers and sweeps
Next ==
  \/ Handlers
  \/ SweepExpired
  \/ Tick

Spec == Init /\ [][Next]_vars

\* The two backends side by side: `proc` falls back to memory, `peer` is
\* connected, and both get the same handler with the same inputs
DeliverBoth(op, u, arg, outs, peerOuts) ==
  \E o \in outs, p \in peerOuts :
    /\ Bounded(o.w)
    /\ Bounded(p.w)
    /\ proc' = o.w
    /\ peer' = p.w
    /\ call' = Call(op, u, arg, proc, now)
    /\ obs' = Observe(o)
    /\ peerObs' = Observe(p)
    /\ UNCHANGED <<now, taskPc, run, dl, prog>>

BothHandleAudio ==
  \E u \in Users, file_name \in FileNames, dl_ok \in BOOLEAN :
    DeliverBoth("handle_audio", u, file_name,
                handle_audio(proc, u, file_name, now, dl_ok, AllOk),
                handle_audio(peer, u, file_name, now, dl_ok, AllOk))

BothHandleFormatSelection ==
  \E u \in Users, format_code \in Formats :
    DeliverBoth("handle_format_selection", u, format_code,
                handle_format_selection(proc, u, format_code, now, AllOk),
                handle_format_selection(peer, u, format_code, now, AllOk))

BothHandleBitrateSelection ==
  \E u \in Users, bitrate \in Bitrates :
    DeliverBoth("handle_bitrate_selection", u, bitrate,
                handle_bitrate_selection(proc, u, bitrate, now, AllOk),
                handle_bitrate_selection(peer, u, bitrate, now, AllOk))

BothContinueEditing ==
  \E u \in Users :
    DeliverBoth("continue_editing", u, None,
                continue_editing(proc, u, now, AllOk),
                continue_editing(peer, u, now, AllOk))

BothCancelCommand ==
  \E u \in Users, rm_ok \in BOOLEAN :
    DeliverBoth("cancel_command", u, rm_ok,
                cancel_command(proc, u, now, AllOk, rm_ok),
                cancel_command(peer, u, now, AllOk, rm_ok))

BothSweepExpired ==
  DeliverBoth("sweep_expired", 0, None,
              sweep_outcomes(proc, now, TRUE), sweep_outcomes(peer, now, TRUE))

BackendsInit ==
  /\ Init
  /\ ~proc.connected

BackendsNext ==
  \/ BothHandleAudio
  \/ BothHandleFormatSelection
  \/ BothHandleBitrateSelection
  \/ BothContinueEditing
  \/ BothCancelCommand
  \/ BothSweepExpired
  \/ Tick

BackendsSpec == BackendsInit /\ [][BackendsNext]_vars

\* The bot as it is started: the handlers and the cleanup task, which is
\* scheduled forever, while the clock keeps running
BotNext ==
  \/ Handlers
  \/ CleanupTaskTry
  \/ CleanupTaskExcept
  \/ Tick

BotSpec ==
  /\ Init
  /\ [][BotNext]_vars
  /\ WF_vars(CleanupTaskTry)
  /\ WF_vars(CleanupTaskExcept)
  /\ WF_vars(Tick)

-----------------------------------------------------------------------------
(* The connected process when a request to the backend can raise: the      *)
(* DatabaseManager method logs the exception and returns None / False.     *)

\* At most one of a handler's requests raises
OneFault == {[i \in 1..4 |-> i # k] : k \in 0..4}

FaultyHandleAudio ==
  \E u \in Users, file_name \in FileNames, ok \in OneFault :
    Deliver("handle_audio", u, file_name,
            handle_audio(proc, u, file_name, now, TRUE, ok))

FaultyContinueEditing ==
  \E u \in Users, ok \in OneFault :
    Deliver("continue_editing", u, None, continue_editing(proc, u, now, ok))

FaultyCancelCommand ==
  \E u \in Users, ok \in OneFault :
    Deliver("cancel_command", u, TRUE,
            cancel_command(proc, u, now, ok, TRUE))

FaultInit == Init /\ proc.connected

FaultNext ==
  \/ FaultyHandleAudio
  \/ FaultyContinueEditing
  \/ FaultyCancelCommand
  \/ Tick

FaultSpec == FaultInit /\ [][FaultNext]_vars

-----------------------------------------------------------------------------
(* The bot with the settings commands and the pipeline *)

\* The text of a /eq command and the effect of an effect_ button
EqInputs == {<<Token(100, "", "+", 3)>>}

Effects == {"reverb"}

Upload ==
  \E u \in Users, file_name \in FileNames :
    Deliver("handle_audio", u, file_name,
            handle_audio(proc, u, file_name, now, TRUE, AllOk))

EqCommand ==
  \E u \in Users, text \in EqInputs :
    Deliver("eq_command", u, text, eq_command(proc, u, text, now, AllOk))

HandleEffectSelection ==
  \E u \in Users, effect \in Effects :
    Deliver("handle_effect_selection", u, effect,
            handle_effect_selection(proc, u, effect, now, AllOk))

\* The files on disk that are not uploads
Leftovers(w) == {f \in w.files : f.stage # "input"}

\* The results of the calls a run of the user's session does not make have
\* no effect: they are fixed to "ok" (TRUE for send_audio)
Material(res, w, u) ==
  LET enabled == UNION {EnabledStages(s.settings) : s \in Stored(w, u)}
      eq_stops == "eq" \in enabled /\ res.eq # "ok"
  IN /\ "eq" \notin enabled => res.eq = "ok"
     /\ ("effects" \notin enabled \/ eq_stops) => res.effects = "ok"
     /\ ("normalize" \notin enabled \/ eq_stops) => res.norm = "ok"
     /\ ("convert" \notin enabled \/ eq_stops) => res.conv = "ok"
     /\ ("convert" \notin enabled \/ eq_stops \/ res.conv # "ok") => res.send

\* confirm_process: one run of the pipeline, while the earlier runs have
\* left at most MaxLeftovers files
ProcessAudio ==
  /\ Cardinality(Leftovers(proc)) <= MaxLeftovers
  /\ \E u \in Users, res \in StageResults :
       /\ Material(res, proc, u)
       /\ \E o \in process_audio(proc, u, now, res, AllOk, TRUE) :
            /\ Bounded(o.w)
            /\ proc' = o.w
            /\ call' = Call("process_audio", u, None, proc, now)
            /\ obs' = Observe(o)
            /\ run' = o.run
            /\ UNCHANGED <<now, taskPc, peer, peerObs, dl, prog>>

\* The users stay away for longer than the TTL: every session stored
\* expires
Idle ==
  /\ now + TTL + 1 <= MaxTime
  /\ now' = now + TTL + 1
  /\ call' = Call("tick", 0, None, World(FALSE), now)
  /\ obs' = NoObs
  /\ peerObs' = NoObs
  /\ run' = NoRun
  /\ UNCHANGED <<proc, taskPc, peer, dl, prog>>

PipelineNext ==
  \/ Upload
  \/ EqCommand
  \/ HandleEffectSelection
  \/ HandleFormatSelection
  \/ ProcessAudio
  \/ Idle

PipelineSpec == Init /\ [][PipelineNext]_vars

-----------------------------------------------------------------------------
(* An upload with its download attempts *)

\* handle_audio up to the first call of download_media: the timestamp of
\* the path is taken, no attempt has been made
StartDownload ==
  /\ dl.pc \in {"idle", "returned"}
  /\ \E u \in Users, file_name \in FileNames, e \in FirstExponents :
       dl' = [pc |-> "attempt", user |-> u, file_name |-> file_name,
              ts |-> now, first_exponent |-> e, tries |-> <<>>,
              file_path |-> None]
  /\ UNCHANGED <<now, proc, call, obs, taskPc, peer, peerObs, run, prog>>

\* One attempt of download_with_retry with what is slept after it.  The
\* download is over when the attempt is not retried: it returns the path,
\* or None (no file, or the exception caught by download_with_progress).
Attempt ==
  /\ dl.pc = "attempt"
  /\ \E outcome \in AttemptOutcomes :
       LET a == attempt(Len(dl.tries) + 1, outcome, dl.first_exponent)
       IN dl' = [dl EXCEPT
                   !.tries = Append(@, a),
                   !.pc = IF a.retried THEN "attempt" ELSE "done",
                   !.file_path = IF outcome.kind = "file"
                                   THEN Path(dl.user, dl.ts, "input")
                                   ELSE None]
  /\ UNCHANGED <<now, proc, call, obs, taskPc, peer, peerObs, run, prog>>

\* The rest of handle_audio once download_with_progress has returned
FinishUpload ==
  /\ dl.pc = "done"
  /\ \E o \in after_download(proc, dl.user, dl.file_name, dl.file_path, now,
                             AllOk) :
       /\ Bounded(o.w)
       /\ proc' = o.w
       /\ call' = Call("handle_audio", dl.user, dl.file_name, proc, now)
       /\ obs' = Observe(o)
  /\ dl' = [dl EXCEPT !.pc = "returned"]
  /\ run' = NoRun
  /\ UNCHANGED <<now, taskPc, peer, peerObs, prog>>

DownloadNext ==
  \/ StartDownload
  \/ Attempt
  \/ FinishUpload

\* The uploads of one clock minute
DownloadSpec == Init /\ [][DownloadNext]_vars

-----------------------------------------------------------------------------
(* One download with the progress reports of the transport *)

\* The readings of the event-loop clock (the monotonic clock of the host,
\* which has run for some seconds) when a download starts
StartClocks == {2, 3}

\* download_with_progress is called: last_update_time = 0
BeginTransfer ==
  /\ prog.pc \in {"idle", "done"}
  /\ \E time \in StartClocks :
       prog' = [NoProgress EXCEPT !.pc = "transfer", !.time = time]
  /\ UNCHANGED <<now, proc, call, obs, taskPc, peer, peerObs, run, dl>>

\* The transport has received more of the file and reports it; the report
\* of the last chunk has current = total
Report ==
  /\ prog.pc = "transfer"
  /\ \E current \in (prog.current + 1)..TotalChunks :
       prog' = [progress(prog, current, TotalChunks)
                  EXCEPT !.pc = IF current = TotalChunks THEN "done"
                                ELSE "transfer"]
  /\ UNCHANGED <<now, proc, call, obs, taskPc, peer, peerObs, run, dl>>

\* A second passes while the transfer goes on
Elapse ==
  /\ prog.pc = "transfer"
  /\ prog.time < MaxClock
  /\ prog' = [prog EXCEPT !.time = @ + 1]
  /\ UNCHANGED <<now, proc, call, obs, taskPc, peer, peerObs, run, dl>>

ProgressNext ==
  \/ BeginTransfer
  \/ Report
  \/ Elapse

ProgressSpec == Init /\ [][ProgressNext]_vars

-----------------------------------------------------------------------------
(* The settings commands on what a user can send *)

\* Tokens of /eq texts: pairs at the limits of the ranges, a frequency and
\* a gain outside them, and a token the pattern does not match
EqTokens ==
  {Token(20, "", "+", 20), Token(40, "K", "-", 20),
   Token(50000, "", "+", 2), Token(100, "", "-", 21), Token(100, "", "", 3)}

\* The /eq texts of up to MaxTokens tokens
EqTexts == UNION {[1..n -> EqTokens] : n \in 0..MaxTokens}

\* The names a callback query effect_{name} can carry: a button of the
\* effects menu, or data the client made up
EffectNames == {"reverb", "echo", "LIMITER"}

SendEq ==
  \E u \in Users, text \in EqTexts :
    Deliver("eq_command", u, text, eq_command(proc, u, text, now, AllOk))

PressEffect ==
  \E u \in Users, effect \in EffectNames :
    Deliver("handle_effect_selection", u, effect,
            handle_effect_selection(proc, u, effect, now, AllOk))

\* The /eq commands of a user between uploads within one minute
EqNext ==
  \/ Upload
  \/ SendEq

EqSpec == Init /\ [][EqNext]_vars

\* The effect selections of a user between uploads
EffectNext ==
  \/ Upload
  \/ PressEffect
  \/ Idle

EffectSpec == Init /\ [][EffectNext]_vars

-----------------------------------------------------------------------------
(* Confirm and cancel: a run of process_audio is suspended at its stages,  *)
(* and the other handlers of the user run meanwhile                        *)

\* An upload while no run is in flight
UploadForRun ==
  /\ run.exit # "running"
  /\ Upload

\* confirm_process up to the first stage
ConfirmProcess ==
  /\ run.exit # "running"
  /\ Cardinality(Leftovers(proc)) <= MaxLeftovers
  /\ \E u \in Users :
       \E o \in begin_process_audio(proc, u, now, AllOk, TRUE) :
         /\ Bounded(o.w)
         /\ proc' = o.w
         /\ call' = Call("confirm_process", u, None, proc, now)
         /\ obs' = Observe(o)
         /\ run' = o.run
  /\ UNCHANGED <<now, taskPc, peer, peerObs, dl, prog>>

\* /cancel or the cancel_operation button, also while a run of the user is
\* in flight
CancelOperation ==
  /\ \E u \in Users :
       \E o \in cancel_command(proc, u, now, AllOk, TRUE) :
         /\ proc' = o.w
         /\ call' = Call("cancel_command", u, TRUE, proc, now)
         /\ obs' = Observe(o)
         /\ run' = IF run.exit = "running"
                     THEN [run EXCEPT !.cancelled = @ \/ run.user = u]
                     ELSE NoRun
  /\ UNCHANGED <<now, taskPc, peer, peerObs, dl, prog>>

\* The results of the stages the settings of the run do not enable have
\* no effect: they are fixed to "ok" (TRUE for send_audio)
MaterialIn(res, settings) ==
  LET enabled == EnabledStages(settings)
      eq_stops == "eq" \in enabled /\ res.eq # "ok"
  IN /\ "eq" \notin enabled => res.eq = "ok"
     /\ ("effects" \notin enabled \/ eq_stops) => res.effects = "ok"
     /\ ("normalize" \notin enabled \/ eq_stops) => res.norm = "ok"
     /\ eq_stops => res.conv = "ok"
     /\ (eq_stops \/ res.conv # "ok") => res.send

\* The try block of the run in flight, to its end; call.arg tells whether a
\* cancel of the user came during the run
RunEnds ==
  /\ run.exit = "running"
  /\ \E res \in StageResults :
       /\ MaterialIn(res, run.settings)
       /\ LET p == pipeline(proc.files, run.user, run.timestamp,
                            run.input_file, run.settings, res)
          IN /\ proc' = [proc EXCEPT !.files = p.files]
             /\ run' = p.run
  /\ call' = Call("process_audio", run.user, run.cancelled, proc, now)
  /\ obs' = NoObs
  /\ UNCHANGED <<now, taskPc, peer, peerObs, dl, prog>>

\* A minute passes, also during a run
Pass ==
  /\ now < MaxTime
  /\ now' = now + 1
  /\ call' = Call("tick", 0, None, World(FALSE), now)
  /\ obs' = NoObs
  /\ UNCHANGED <<proc, taskPc, peer, peerObs, run, dl, prog>>

ConfirmNext ==
  \/ UploadForRun
  \/ ConfirmProcess
  \/ CancelOperation
  \/ RunEnds
  \/ Pass

ConfirmSpec == Init /\ [][ConfirmNext]_vars

-----------------------------------------------------------------------------
(* Confirm when the file of the session may be gone from disk *)

\* Something other than the bot removes an upload under downloads/
ExternalCleanup ==
  /\ \E f \in proc.files :
       /\ f.stage = "input"
       /\ proc' = [proc EXCEPT !.files = @ \ {f}]
  /\ call' = Call("external_cleanup", 0, None, World(FALSE), now)
  /\ obs' = NoObs
  /\ run' = NoRun
  /\ UNCHANGED <<now, taskPc, peer, peerObs, dl, prog>>

MissingFileNext ==
  \/ Upload
  \/ EqCommand
  \/ ProcessAudio
  \/ ExternalCleanup
  \/ Idle

MissingFileSpec == Init /\ [][MissingFileNext]_vars

-----------------------------------------------------------------------------
(* Two users: the handlers of both interleave in the one event loop *)

BothUsers == {1, 2}

UploadBy ==
  \E u \in BothUsers, file_name \in FileNames :
    Deliver("handle_audio", u, file_name,
            handle_audio(proc, u, file_name, now, TRUE, AllOk))

FormatSelectionBy ==
  \E u \in BothUsers, format_code \in Formats :
    Deliver("handle_format_selection", u, format_code,
            handle_format_selection(proc, u, format_code, now, AllOk))

ContinueEditingBy ==
  \E u \in BothUsers :
    Deliver("continue_editing", u, None,
            continue_editing(proc, u, now, AllOk))

CancelBy ==
  \E u \in BothUsers :
    Deliver("cancel_command", u, TRUE,
            cancel_command(proc, u, now, AllOk, TRUE))

\* The stage results of a run for the user that differ in a call the run
\* makes
ResultsFor(w, u) ==
  LET enabled == UNION {EnabledStages(s.settings) : s \in Stored(w, u)}
      outcomes(stage) == IF stage \in enabled THEN StageOutcomes ELSE {"ok"}
  IN {res \in [eq : outcomes("eq"), effects : outcomes("effects"),
               norm : outcomes("normalize"), conv : outcomes("convert"),
               send : BOOLEAN] : Material(res, w, u)}

ProcessAudioBy ==
  /\ Cardinality(Leftovers(proc)) <= MaxLeftovers
  /\ \E u \in BothUsers :
       \E res \in ResultsFor(proc, u) :
         \E o \in process_audio(proc, u, now, res, AllOk, TRUE) :
            /\ Bounded(o.w)
            /\ proc' = o.w
            /\ call' = Call("process_audio", u, None, proc, now)
            /\ obs' = Observe(o)
            /\ run' = o.run
            /\ UNCHANGED <<now, taskPc, peer, peerObs, dl, prog>>

TwoUsersNext ==
  \/ UploadBy
  \/ FormatSelectionBy
  \/ ContinueEditingBy
  \/ CancelBy
  \/ ProcessAudioBy
  \/ Idle

TwoUsersSpec == Init /\ [][TwoUsersNext]_vars

-----------------------------------------------------------------------------
(* The stages of AdvancedAudioProcessor (src/audio_processor.py) on the    *)
(* settings process_audio passes to them.  A board is the sequence of the  *)
(* plugins appended to the Pedalboard, a command the sequence of the       *)
(* ffmpeg arguments.                                                       *)

\* effect.lower(), on the names of EffectNames
effect_lower(effect) ==
  CASE effect = "LIMITER" -> "limiter"
    [] OTHER -> effect

\* The if/elif chain over effect_lower: the plugin appended to the board,
\* none for a name no branch matches
plugin_of(name) ==
  CASE name = "reverb" -> <<"Reverb">>
    [] name = "chorus" -> <<"Chorus">>
    [] name = "phaser" -> <<"Phaser">>
    [] name = "distortion" -> <<"Distortion">>
    [] name = "compressor" -> <<"Compressor">>
    [] name = "delay" -> <<"Delay">>
    [] name = "bitcrush" -> <<"Bitcrush">>
    [] name = "limiter" -> <<"Limiter">>
    [] OTHER -> <<>>

\* for effect in effects: ...
RECURSIVE effects_board(_)
effects_board(effects) ==
  IF effects = <<>>
    THEN <<>>
    ELSE plugin_of(effect_lower(Head(effects))) \o effects_board(Tail(effects))

\* The effects stage as it would be if a name no branch matches raised
apply_effects_strict(effects, io_ok) ==
  [board |-> effects_board(effects),
   ret |-> io_ok /\ \A i \in DOMAIN effects :
                      plugin_of(effect_lower(effects[i])) # <<>>]

\* apply_pedalboard_effects: the board built from the names and the value
\* returned, False when reading, processing or writing the audio raises
\* (io_ok = FALSE)
apply_pedalboard_effects(effects, io_ok) ==
  [board |-> effects_board(effects), ret |-> io_ok]

\* The effects stage of a confirmed run, on the effects of the session:
\* if settings.get('effects'): apply_pedalboard_effects(..., settings['effects'])
ApplyPedalboardEffects ==
  \E u \in Users, io_ok \in BOOLEAN :
    \E s \in Live(proc, u, now) :
      /\ s.file_path # None
      /\ DictGet(s.settings, "effects", <<>>) # <<>>
      /\ call' = Call("apply_pedalboard_effects", u, s.settings.effects,
                      proc, now)
      /\ obs' = [got |-> s, ret |-> io_ok]
      /\ run' = [exit |-> "stage"]
                  @@ apply_pedalboard_effects(s.settings.effects, io_ok)
      /\ peerObs' = NoObs
      /\ UNCHANGED <<now, proc, taskPc, peer, dl, prog>>

EffectsStageNext ==
  \/ Upload
  \/ PressEffect
  \/ ApplyPedalboardEffects

EffectsStageSpec == Init /\ [][EffectsStageNext]_vars

\* The limits of the shelving filters in apply_eq
LowShelfBelow == 200

HighShelfAbove == 8000

\* The filter of one band as it would be with 200 Hz a low shelf
filter_of_low_shelf_at_limit(eq) ==
  LET freq == DictGet(eq, "freq", 1000)
      gain_db == DictGet(eq, "gain", 0)
      q == DictGet(eq, "q", 1)
  IN IF freq_in_range(freq) /\ gain_in_range(gain_db)
       THEN IF freq <= LowShelfBelow
              THEN <<[filter |-> "LowShelfFilter",
                      cutoff_frequency_hz |-> freq, gain_db |-> gain_db]>>
            ELSE IF freq > HighShelfAbove
              THEN <<[filter |-> "HighShelfFilter",
                      cutoff_frequency_hz |-> freq, gain_db |-> gain_db]>>
            ELSE <<[filter |-> "PeakFilter", cutoff_frequency_hz |-> freq,
                    gain_db |-> gain_db, q |-> q]>>
       ELSE <<>>

\* The body of `for eq in eq_settings`: the filter appended for one band,
\* none for a band out of the ranges
filter_of(eq) ==
  LET freq == DictGet(eq, "freq", 1000)
      gain_db == DictGet(eq, "gain", 0)
      q == DictGet(eq, "q", 1)
  IN IF freq_in_range(freq) /\ gain_in_range(gain_db)
       THEN IF freq < LowShelfBelow
              THEN <<[filter |-> "LowShelfFilter",
                      cutoff_frequency_hz |-> freq, gain_db |-> gain_db]>>
            ELSE IF freq > HighShelfAbove
              THEN <<[filter |-> "HighShelfFilter",
                      cutoff_frequency_hz |-> freq, gain_db |-> gain_db]>>
            ELSE <<[filter |-> "PeakFilter", cutoff_frequency_hz |-> freq,
                    gain_db |-> gain_db, q |-> q]>>
       ELSE <<>>

\* for eq in eq_settings: ...
RECURSIVE eq_board(_)
eq_board(eq_settings) ==
  IF eq_settings = <<>>
    THEN <<>>
    ELSE filter_of(Head(eq_settings)) \o eq_board(Tail(eq_settings))

\* apply_eq: the one board built from the bands and the value returned,
\* False when reading, processing or writing the audio raises
apply_eq(eq_settings, io_ok) ==
  [board |-> eq_board(eq_settings), ret |-> io_ok]

\* Tokens of /eq texts around the limits of the shelving filters
ShelfTokens ==
  {Token(199, "", "+", 3), Token(200, "", "-", 3),
   Token(8, "k", "+", 6), Token(8001, "", "-", 6)}

ShelfTexts == UNION {[1..n -> ShelfTokens] : n \in 0..MaxTokens}

SendShelfEq ==
  \E u \in Users, text \in ShelfTexts :
    Deliver("eq_command", u, text, eq_command(proc, u, text, now, AllOk))

\* The EQ stage of a confirmed run, on the bands of the session:
\* if settings.get('eq'): apply_eq(current_file, eq_file, settings['eq'])
ApplyEq ==
  \E u \in Users, io_ok \in BOOLEAN :
    \E s \in Live(proc, u, now) :
      /\ s.file_path # None
      /\ DictGet(s.settings, "eq", <<>>) # <<>>
      /\ call' = Call("apply_eq", u, s.settings.eq, proc, now)
      /\ obs' = [got |-> s, ret |-> io_ok]
      /\ run' = [exit |-> "stage"] @@ apply_eq(s.settings.eq, io_ok)
      /\ peerObs' = NoObs
      /\ UNCHANGED <<now, proc, taskPc, peer, dl, prog>>

EqStageNext ==
  \/ Upload
  \/ SendShelfEq
  \/ ApplyEq

EqStageSpec == Init /\ [][EqStageNext]_vars

\* output_format.lower(), on the format codes of FormatCodes
format_lower(output_format) ==
  CASE output_format = "FLAC" -> "flac"
    [] OTHER -> output_format

\* codec_map of convert_audio
codec_map ==
  [mp3 |-> "libmp3lame", m4a |-> "aac", aac |-> "aac", ogg |-> "libvorbis",
   opus |-> "libopus", flac |-> "flac", wav |-> "pcm_s16le", alac |-> "alac",
   wma |-> "wmav2", ac3 |-> "ac3", webm |-> "libopus"]

\* lossless_formats of convert_audio
lossless_formats == {"flac", "wav", "alac", "ape", "wv", "tta", "aiff"}

\* One option of the command with its value
Arg(opt, val) == [opt |-> opt, val |-> val]

\* The filters of -af in the order they are appended; duration is what
\* get_audio_info reports for the input
audio_filters(bass_boost, normalize, fade_in, fade_out, speed, duration) ==
  (IF bass_boost > 0
     THEN <<[filter |-> "equalizer", g |-> bass_boost]>> ELSE <<>>)
  \o (IF normalize THEN <<[filter |-> "loudnorm"]>> ELSE <<>>)
  \o (IF fade_in > 0
        THEN <<[filter |-> "afade", t |-> "in", d |-> fade_in]>> ELSE <<>>)
  \o (IF fade_out > 0 /\ duration > 0
        THEN <<[filter |-> "afade", t |-> "out", d |-> fade_out]>>
        ELSE <<>>)
  \o (IF speed # 1 THEN <<[filter |-> "atempo", tempo |-> speed]>> ELSE <<>>)

\* convert_audio: the arguments of the ffmpeg command after 'ffmpeg', in
\* order, the filters being those of audio_filters
convert_audio(input_file, output_file, output_format, bitrate, sample_rate, channels, filters) ==
  LET fmt == format_lower(output_format)
      codec == IF fmt \in DOMAIN codec_map THEN codec_map[fmt] ELSE "copy"
  IN <<Arg("-i", input_file), Arg("-y", None)>>
     \o (IF filters # <<>> THEN <<Arg("-af", filters)>> ELSE <<>>)
     \o (IF codec # "copy" THEN <<Arg("-c:a", codec)>> ELSE <<>>)
     \o (IF fmt \notin lossless_formats
           THEN <<Arg("-b:a", bitrate)>> ELSE <<>>)
     \o <<Arg("-ar", sample_rate), Arg("-ac", channels)>>
     \o (CASE fmt = "mp3" -> <<Arg("-q:a", "0")>>
           [] fmt \in {"aac", "m4a"} -> <<Arg("-movflags", "+faststart")>>
           [] fmt = "flac" -> <<Arg("-compression_level", "8")>>
           [] OTHER -> <<>>)
     \o <<Arg("output", output_file)>>

\* The formats of the buttons of format_selection and more_formats
ButtonFormats ==
  {"mp3", "m4a", "aac", "flac", "wav", "alac", "ogg", "opus", "wma",
   "ape", "wv", "tta", "aiff", "webm", "ac3"}

\* The codes a callback query format_{code} can carry: a button, or data
\* the client made up
FormatCodes == ButtonFormats \cup {"FLAC"}

SelectFormat ==
  \E u \in Users, format_code \in FormatCodes :
    Deliver("handle_format_selection", u, format_code,
            handle_format_selection(proc, u, format_code, now, AllOk))

\* The conversion stage of a confirmed run, on the settings of the
\* session: convert_audio(..., normalize=False, ...); ok is whether ffmpeg
\* exits with status 0
ConvertAudio ==
  \E u \in Users, ok \in BOOLEAN :
    \E s \in Live(proc, u, now) :
      LET settings == s.settings
          filters == audio_filters(DictGet(settings, "bass_boost", 0), FALSE,
                                   DictGet(settings, "fade_in", 0),
                                   DictGet(settings, "fade_out", 0),
                                   DictGet(settings, "speed", 1), 1)
          output_format == DictGet(settings, "format", "mp3")
      IN /\ s.file_path # None
         /\ call' = Call("convert_audio", u, output_format, proc, now)
         /\ obs' = [got |-> s, ret |-> ok]
         /\ run' = [exit |-> "stage", ret |-> ok,
                    cmd |-> convert_audio(s.file_path, Path(u, now, "output"),
                                          output_format,
                                          DictGet(settings, "bitrate", "320k"),
                                          DictGet(settings, "sample_rate", 48000),
                                          DictGet(settings, "channels", 2),
                                          filters)]
         /\ peerObs' = NoObs
         /\ UNCHANGED <<now, proc, taskPc, peer, dl, prog>>

ConvertNext ==
  \/ Upload
  \/ SelectFormat
  \/ HandleBitrateSelection
  \/ ConvertAudio

ConvertSpec == Init /\ [][ConvertNext]_vars

-----------------------------------------------------------------------------
(* The event loop: the cleanup task created before bot.run() and the       *)
(* handlers are coroutines of one loop, which runs one of them at a time   *)
(* until it awaits.  taskPc is "scheduled" (created, not yet run),         *)
(* "suspended" (inside asyncio.sleep), "try" (running, at the top of the   *)
(* loop body) or "except" (running, in the except clause).                 *)

\* A handler gets to run only while the task is not running
LoopFree == taskPc \in {"scheduled", "suspended"}

LoopInit ==
  /\ now = 0
  /\ proc \in {World(FALSE), World(TRUE)}
  /\ call = Call("start", 0, None, proc, now)
  /\ obs = NoObs
  /\ taskPc = "scheduled"
  /\ peer = World(TRUE)
  /\ peerObs = NoObs
  /\ run = NoRun
  /\ dl = NoDownload
  /\ prog = NoProgress

\* One step of cleanup_expired_sessions.  At the top of the loop body the
\* argument of asyncio.sleep is evaluated first: without the attribute
\* AttributeError is raised before anything is awaited, and control goes to
\* the except clause; with it the task suspends.  The except clause logs
\* and goes back to the top without awaiting.  When the sleep is over the
\* sweep runs, and the loop goes back to the top.
CleanupTaskStep ==
  IF taskPc \in {"scheduled", "try"}
    THEN /\ taskPc' = IF "CLEANUP_INTERVAL_SECONDS" \in ConfigAttributes
                        THEN "suspended" ELSE "except"
         /\ UNCHANGED <<now, proc, call, obs, peer, peerObs, run, dl, prog>>
  ELSE IF taskPc = "except"
    THEN /\ taskPc' = "try"
         /\ UNCHANGED <<now, proc, call, obs, peer, peerObs, run, dl, prog>>
  ELSE \E r \in sweep_expired(proc, now, TRUE) :
         /\ taskPc' = "try"
         /\ proc' = r.w
         /\ call' = Call("cleanup_task", 0, None, proc, now)
         /\ obs' = NoObs
         /\ run' = NoRun
         /\ UNCHANGED <<now, peer, peerObs, dl, prog>>

\* A handler, when the loop is free to run it
LoopHandlers == LoopFree /\ Handlers

\* Time passes, whatever the loop runs
LoopNext ==
  \/ LoopHandlers
  \/ CleanupTaskStep
  \/ Tick

LoopSpec == LoopInit /\ [][LoopNext]_vars /\ WF_vars(CleanupTaskStep)

-----------------------------------------------------------------------------
(* Configuration handlers in flight together.  Pyrogram runs the handlers  *)
(* as coroutines of the one event loop (PnProjects, workers=8): a handler  *)
(* gives way to another only where an await suspends.  `run` holds the     *)
(* handlers in flight, each with its position: "started" (dispatched, its  *)
(* session not yet read), "read" (session read, not yet written back) and  *)
(* "answering" (written back, awaiting callback_query.answer).             *)

\* `await` as it would be if every await gave way to the other coroutines
every_await_suspends == TRUE

\* Whether `await get_user_session(...)` and `await update_user_session(...)`
\* suspend the handler: the functions awaited and the DatabaseManager
\* methods they await contain no await that suspends (the requests are the
\* blocking .execute() of the client, the fallback is plain method calls),
\* so they run to their end without giving way
session_await_suspends == FALSE

Slots == {1, 2}

IdleHandler ==
  [pc |-> "idle", op |-> "none", arg |-> "", user |-> 0, got |-> None]

\* The handlers in flight
SlotsOf(r) ==
  IF r.exit = "handlers" THEN r.slots ELSE [i \in Slots |-> IdleHandler]

\* The configuration callbacks: bitrate_{bitrate} and effect_{effect}
ConfigActions ==
  {[op |-> "handle_bitrate_selection", arg |-> b] : b \in Bitrates}
    \cup {[op |-> "handle_effect_selection", arg |-> e] : e \in Effects}

\* The settings a handler writes back, merged into the session it read;
\* none when handle_effect_selection finds the effect in the list
merged_settings(op, arg, session) ==
  IF op = "handle_bitrate_selection"
    THEN {SetItem(session.settings, "bitrate", arg)}
  ELSE IF ~InList(arg, DictGet(session.settings, "effects", <<>>))
    THEN {SetItem(session.settings, "effects",
                  Append(DictGet(session.settings, "effects", <<>>), arg))}
  ELSE {}

\* The handler from its start to its write-back, in one piece
configure(w, u, op, arg, t) ==
  IF op = "handle_bitrate_selection"
    THEN handle_bitrate_selection(w, u, arg, t, AllOk)
    ELSE handle_effect_selection(w, u, arg, t, AllOk)

\* An upload while no configuration handler is in flight
UploadBetween ==
  /\ \A i \in Slots : SlotsOf(run)[i].pc = "idle"
  /\ Upload

\* A callback query of a user is dispatched to its handler
Arrive ==
  \E i \in Slots, u \in Users, a \in ConfigActions :
    /\ SlotsOf(run)[i].pc = "idle"
    /\ run' = [exit |-> "handlers",
               slots |-> [SlotsOf(run) EXCEPT ![i] =
                            [pc |-> "started", op |-> a.op, arg |-> a.arg,
                             user |-> u, got |-> None]]]
    /\ call' = Call("arrive", u, a.arg, proc, now)
    /\ obs' = NoObs
    /\ UNCHANGED <<now, proc, taskPc, peer, peerObs, dl, prog>>

\* The event loop runs a handler in flight up to its next await that
\* suspends
Resume ==
  \E i \in Slots :
    LET h == SlotsOf(run)[i]
        At(pc, got) == [exit |-> "handlers",
                        slots |-> [SlotsOf(run) EXCEPT ![i].pc = pc,
                                                       ![i].got = got]]
    IN /\ h.pc # "idle"
       /\ IF h.pc = "started" /\ ~session_await_suspends
            THEN \E o \in configure(proc, h.user, h.op, h.arg, now) :
                   /\ Bounded(o.w)
                   /\ proc' = o.w
                   /\ call' = Call(h.op, h.user, h.arg, proc, now)
                   /\ obs' = Observe(o)
                   /\ run' = At("answering", o.got)
          ELSE IF h.pc = "started"
            THEN \E g \in get_user_session(proc, h.user, now, TRUE, TRUE) :
                   /\ Bounded(g.w)
                   /\ proc' = g.w
                   /\ call' = Call("get_user_session", h.user, h.arg, proc, now)
                   /\ obs' = [got |-> g.ret, ret |-> FALSE]
                   /\ run' = At("read", g.ret)
          ELSE IF h.pc = "read"
            THEN /\ call' = Call(h.op, h.user, h.arg, proc, now)
                 /\ run' = At("answering", h.got)
                 /\ IF merged_settings(h.op, h.arg, h.got) = {}
                      THEN /\ proc' = proc
                           /\ obs' = [got |-> h.got, ret |-> FALSE]
                      ELSE \E settings \in merged_settings(h.op, h.arg, h.got) :
                             \E r \in update_user_session(
                                        proc, h.user, [settings |-> settings],
                                        now, TRUE, TRUE) :
                               /\ proc' = r.w
                               /\ obs' = [got |-> h.got, ret |-> r.ret]
          ELSE /\ run' = [exit |-> "handlers",
                          slots |-> [SlotsOf(run) EXCEPT ![i] = IdleHandler]]
               /\ call' = Call("answered", h.user, h.arg, proc, now)
               /\ obs' = NoObs
               /\ proc' = proc
       /\ UNCHANGED <<now, taskPc, peer, peerObs, dl, prog>>

InFlightNext ==
  \/ UploadBetween
  \/ Arrive
  \/ Resume

InFlightSpec == Init /\ [][InFlightNext]_vars

-----------------------------------------------------------------------------
(* The Normalize button and the runs after it *)

\* The callback data of the processing options that open no menu
\* (Normalize) and that open one (Convert Format)
ProcessButtons == {"process_normalize", "process_convert"}

\* handle_process_callbacks as it would be if the Normalize button set the
\* normalize setting
process_callbacks_set_normalize(w, u, data, t, ok) ==
  IF data = "process_normalize"
    THEN UNION {
           { Outcome(r.w, g.ret, r.ret, g.raised \/ r.raised)
             : r \in update_user_session(
                       g.w, u,
                       [settings |-> SetItem(g.ret.settings, "normalize", TRUE)],
                       t, ok[3], ok[4]) }
           : g \in get_user_session(w, u, t, ok[1], ok[2]) }
    ELSE {Outcome(w, None, FALSE, FALSE)}

\* handle_process_callbacks: process_convert_, process_bitrate_,
\* process_effects_ and process_3d_ show a menu; no branch matches
\* process_normalize_, process_bass_ or process_info_; the session is
\* neither read nor written
handle_process_callbacks(w, u, data, t, ok) ==
  {Outcome(w, None, FALSE, FALSE)}

PressProcessButton ==
  \E u \in Users, data \in ProcessButtons :
    Deliver("handle_process_callbacks", u, data,
            handle_process_callbacks(proc, u, data, now, AllOk))

NormalizeNext ==
  \/ Upload
  \/ HandleFormatSelection
  \/ HandleEffectSelection
  \/ PressProcessButton
  \/ ProcessAudio
  \/ ConvertAudio

NormalizeSpec == Init /\ [][NormalizeNext]_vars

-----------------------------------------------------------------------------
(* Properties of the session store *)

\* The handlers that call update_user_session
UpdateOps ==
  {"handle_audio", "handle_format_selection", "handle_bitrate_selection"}

\* The handlers that call get_user_session
GetOps == {"handle_audio", "handle_bitrate_selection", "continue_editing"}

\* s2 is the stored session s after a step
SameSession(w, s, s2) ==
  IF w.connected THEN s.id = s2.id ELSE s.user_id = s2.user_id

\* The settings fields of `before` that `after` still holds unchanged
KeptFields(before, after) ==
  {k \in DOMAIN before \cap DOMAIN after : after[k] = before[k]}

\* C1: an update changes only the settings fields named in the partial
\* record it is given; a format selection gives output_format alone, so
\* every other settings field of the session keeps its value.
C1_UpdateKeepsUnnamedFields ==
  [][\A u \in Users :
       (call'.op = "handle_format_selection" /\ call'.user = u /\ obs'.ret)
       => \A s \in Stored(proc, u), s2 \in Stored(proc', u) :
            SameSession(proc, s, s2)
            => DOMAIN s.settings \ {"format"}
                 \subseteq KeptFields(s.settings, s2.settings)]_vars

\* C2: the session get_user_session returns to a handler never has an
\* expires_at at or before the current time.
C2_NeverReturnsExpired ==
  (call.op \in GetOps /\ obs.got # None /\ "expires_at" \in DOMAIN obs.got)
  => obs.got.expires_at > now

\* C2 witness: a handler fetched the session of a user whose stored session
\* had expired, and was given one that expires later.
C2_Witness ==
  /\ call.op = "continue_editing"
  /\ call.found = "expired"
  /\ obs.got # None
  /\ obs.got.expires_at > now

\* C3: for a user with no live session (none stored, or one stored past its
\* expires_at) an update returns false and leaves the store as it was.
C3_UpdateWithoutLiveSession ==
  [][(call'.op = "handle_format_selection" /\ call'.found # "live")
     => /\ ~obs'.ret
        /\ proc'.sessions = proc.sessions
        /\ proc'.rows = proc.rows]_vars

\* C4: when the stored session of a user has passed its expiry, the session
\* get_user_session returns is newly created: no file, no original name,
\* the default settings.
C4_ExpiredSessionReplaced ==
  (call.op \in GetOps /\ call.found = "expired" /\ obs.got # None)
  => /\ obs.got.file_path = None
     /\ obs.got.original_filename = None
     /\ obs.got.settings = DefaultSettings
     /\ obs.got.updated_at = now

\* C4 witness: the fallback process fetched the session of a user whose
\* expired session had a file, which is still on disk, and returned a
\* session without one.
C4_Witness ==
  /\ ~proc.connected
  /\ call.op = "continue_editing"
  /\ call.found = "expired"
  /\ now > TTL
  /\ proc.files # {}
  /\ obs.got.file_path = None

\* C5: right after a successful update the live session of the user was
\* refreshed: updated_at is the time of the update and expires_at is
\* updated_at plus the TTL.
C5_UpdateRefreshesExpiry ==
  (call.op \in UpdateOps /\ obs.ret)
  => \A s \in Live(proc, call.user, now) :
       /\ s.updated_at = now
       /\ s.expires_at = s.updated_at + TTL

\* The sessions a process stores, for all users
AllStored(w) == UNION {Stored(w, u) : u \in Users}

\* The stored session s owns a file on disk that it no longer owns after
\* the step to w2: s was removed, or its file_path was replaced
GaveUpFile(w, s, w2) ==
  /\ s.file_path # None
  /\ s.file_path \in w.files
  /\ ~\E s2 \in AllStored(w2) :
        SameSession(w, s, s2) /\ s2.file_path = s.file_path

\* The step is not a cancel whose os.remove raised
RemovalSucceeded(c) == c.op = "cancel_command" => c.arg

\* C6: whenever a step removes a session (cancel, expiry found on lookup,
\* sweep) or replaces its input file by a new upload, the file the session
\* owned is deleted from disk.
C6_GivenUpFileIsDeleted ==
  [][\A s \in AllStored(proc) :
       (GaveUpFile(proc, s, proc') /\ RemovalSucceeded(call'))
       => s.file_path \notin proc'.files]_vars

\* C7: after delete_user_session has run for a user (and os.remove did
\* not fail) no session of the user is stored and the file of the session
\* that was stored, expired or not, is no longer on disk.
C7_DeleteRemovesSessionAndFile ==
  [][(call'.op = "cancel_command" /\ call'.arg)
     => /\ Stored(proc', call'.user) = {}
        /\ \A s \in Stored(proc, call'.user) :
             s.file_path # None => s.file_path \notin proc'.files]_vars

\* The sessions stored past their expires_at
Expired(w, t) == {s \in AllStored(w) : s.expires_at < t}

\* C8: every session that has expired is eventually removed from the store
\* by the cleanup task, whatever the users do.
C8_ExpiredEventuallyReaped ==
  (Expired(proc, now) # {}) ~> (Expired(proc, now) = {})

\* C9: a sweep removes the stored sessions whose expires_at has passed and
\* no other, returns how many it removed, and leaves only sessions that
\* get_user_session treats as live.
C9_SweepLeavesOnlyLive ==
  [][call'.op = "sweep_expired"
     => /\ AllStored(proc') \subseteq AllStored(proc)
        /\ \A s \in AllStored(proc) :
             s.expires_at > now => s \in AllStored(proc')
        /\ obs'.ret = Cardinality(AllStored(proc) \ AllStored(proc'))
        /\ \A s \in AllStored(proc') : s.expires_at > now]_vars

\* What a caller sees of a session: its file, name, settings and expiry
View(s) ==
  IF s = None \/ "expires_at" \notin DOMAIN s THEN None
  ELSE [file_path |-> s.file_path, original_filename |-> s.original_filename,
        settings |-> s.settings, expires_at |-> s.expires_at]

\* C10: given the same handlers at the same times, the connected process
\* and the fallback process return the same sessions (file, settings,
\* expiry) and the same update results.
C10_BackendsAgree ==
  /\ View(obs.got) = View(peerObs.got)
  /\ obs.ret = peerObs.ret

\* C11: at any time the store holds at most one live session per user.
C11_OneLiveSessionPerUser ==
  \A u \in Users : Cardinality(Live(proc, u, now)) <= 1

\* A pipeline run has just ended
RunEnded == call.op = "process_audio" /\ run.exit # "none"

\* C12: after a pipeline run ends, by success, stage failure or exception,
\* none of the files the run wrote is left on disk.
C12_RunLeavesNoFiles ==
  RunEnded => run.written \cap proc.files = {}

\* C13: if a stage of a run fails, no later stage is invoked, nothing is
\* delivered and the failure is reported.
C13_StageFailureAbortsRun ==
  RunEnded
  => \A i \in DOMAIN run.invoked :
       ~run.invoked[i].success
       => i = Len(run.invoked) /\ ~run.delivered /\ run.reported

\* The place of a stage in the fixed order
StageRank(stage) ==
  CASE stage = "eq" -> 1
    [] stage = "effects" -> 2
    [] stage = "normalize" -> 3
    [] stage = "convert" -> 4

\* The output of the last stage before conversion that the settings
\* enable, or the original input if they enable none
LastEnabledOutput(r) ==
  LET before == {i \in DOMAIN r.invoked : r.invoked[i].stage # "convert"}
  IN IF r.enabled \ {"convert"} = {} \/ before = {}
       THEN r.input_file
       ELSE r.invoked[CHOOSE i \in before : \A j \in before : j <= i]
              .output_file

\* C14: a run invokes only enabled stages, in the order eq, effects,
\* normalize, convert; conversion takes the output of the last enabled
\* stage before it, or the original input if none is enabled.
C14_StagesInFixedOrder ==
  RunEnded
  => /\ \A i \in DOMAIN run.invoked : run.invoked[i].stage \in run.enabled
     /\ \A i, j \in DOMAIN run.invoked :
          i < j => StageRank(run.invoked[i].stage)
                     < StageRank(run.invoked[j].stage)
     /\ \A i \in DOMAIN run.invoked :
          run.invoked[i].stage = "convert"
          => /\ i = Len(run.invoked)
             /\ run.enabled \ {"convert"}
                  = {run.invoked[j].stage : j \in 1..(i - 1)}
             /\ run.invoked[i].input_file = LastEnabledOutput(run)

\* C15: after a run has succeeded and its result is delivered, the user's
\* session and its input file are gone.
C15_DeliveredRunPurgesSession ==
  (RunEnded /\ run.delivered)
  => /\ Stored(proc, call.user) = {}
     /\ run.input_file \notin proc.files

\* C16: a pipeline run neither deletes nor overwrites the input file of the
\* session, on any exit path.
C16_RunKeepsInput ==
  [][call'.op = "process_audio"
     => /\ \A f \in proc.files : f.stage = "input" => f \in proc'.files
        /\ \A i \in DOMAIN run'.invoked :
             /\ run'.invoked[i].output_file # run'.input_file
             /\ run'.invoked[i].output_file.stage # "input"]_vars

\* Runs that ended on each exit path with the input file in place
C16_Witness ==
  /\ RunEnded
  /\ run.exit \in {"convert_failed", "exception"}
  /\ Len(run.invoked) >= 2
  /\ run.input_file \in proc.files

\* Every attempt made failed with a retried class of exception
AllTransient(tries) ==
  /\ tries # <<>>
  /\ \A i \in DOMAIN tries : tries[i].outcome.kind \in TransientErrors

\* C17: when every attempt fails with a transient error the download makes
\* exactly 5 attempts and fails; handle_audio gets no path and leaves the
\* store and the files as they were.
C17_FiveAttemptsThenFail ==
  [][(dl.pc = "done" /\ dl'.pc = "returned" /\ AllTransient(dl.tries))
     => /\ Len(dl.tries) = 5
        /\ dl.file_path = None
        /\ obs'.got = None
        /\ proc' = proc]_vars

\* A failed upload after five transient failures, the last a FloodWait,
\* for a user whose session holds an earlier file
C17_Witness ==
  /\ dl.pc = "returned"
  /\ AllTransient(dl.tries)
  /\ Len(dl.tries) = 5
  /\ dl.tries[5].outcome.kind = "FloodWait"
  /\ call.op = "handle_audio"
  /\ \E s \in Stored(proc, dl.user) : s.file_path \in proc.files

\* C18: after an attempt that failed with a FloodWait of N seconds, the
\* time slept before the next attempt is exactly N seconds.
C18_FloodWaitSleepsExactly ==
  \A i \in DOMAIN dl.tries :
    (dl.tries[i].outcome.kind = "FloodWait" /\ dl.tries[i].retried)
    => dl.tries[i].flood + dl.tries[i].backoff = dl.tries[i].outcome.value

\* C19: the wait of the decorator before the first retry is 4 s, each later
\* wait is twice the one before (up to the ceiling), and no wait exceeds
\* 60 s.
C19_CappedDoubling ==
  \A i \in DOMAIN dl.tries :
    dl.tries[i].retried
    => /\ dl.tries[i].backoff <= 60
       /\ i = 1 => dl.tries[i].backoff = 4
       /\ i > 1 => dl.tries[i].backoff
                     = Min(2 * dl.tries[i - 1].backoff, 60)

\* C20: an attempt that fails with an exception outside the transient
\* classes ends the download at once: it is the last attempt, nothing is
\* slept after it, no path is returned; if it is the first attempt, it is
\* the only one.
C20_NonTransientFailsAtOnce ==
  \A i \in DOMAIN dl.tries :
    (Raises(dl.tries[i].outcome)
       /\ dl.tries[i].outcome.kind \notin TransientErrors)
    => /\ i = Len(dl.tries)
       /\ dl.pc \in {"done", "returned"}
       /\ ~dl.tries[i].retried
       /\ dl.tries[i].flood + dl.tries[i].backoff = 0
       /\ dl.file_path = None

\* An upload that failed on a first attempt raising ValueError
C20_Witness ==
  /\ dl.pc = "returned"
  /\ Len(dl.tries) = 1
  /\ dl.tries[1].outcome.kind = "ValueError"
  /\ obs.got = None

\* C21: the report of completion (current = total) is always forwarded to
\* the progress output, also when it comes less than 2 seconds after the
\* report forwarded before it.
C21_CompletionForwarded ==
  (prog.pc = "done" /\ prog.last.current = prog.last.total)
  => prog.last.called

\* C22: within one download, any two consecutive forwarded progress
\* reports are at least 2 seconds apart, however often the transport
\* reports.
C22_ForwardedTwoSecondsApart ==
  \A i \in DOMAIN prog.forwarded :
    i > 1 => prog.forwarded[i] - prog.forwarded[i - 1] >= 2

\* Two reports were forwarded and a third, made less than 2 seconds after
\* the second, was not
C22_Witness ==
  /\ Len(prog.forwarded) >= 2
  /\ ~prog.last.called
  /\ prog.last.time - prog.forwarded[Len(prog.forwarded)] < 2

\* C23: whenever the download returns a path, a file is on disk at that
\* path and it is not empty.
C23_ReturnedFileNonEmpty ==
  (dl.pc \in {"done", "returned"} /\ dl.file_path # None)
  => /\ dl.tries[Len(dl.tries)].outcome.kind = "file"
     /\ dl.tries[Len(dl.tries)].outcome.value > 0
     /\ dl.pc = "returned" => dl.file_path \in proc.files

\* The pair of the i-th token of a text that has the form
\* --{number}[k]hz {+|-}{number}db is within the bounds
InBounds(text, i) ==
  /\ freq_of(findall(text)[i]) \in 20..40000
  /\ gain_of(findall(text)[i]) \in (-20)..20

\* The /eq text is to be rejected: no token has the form, or a pair is out
\* of bounds
Rejected(text) ==
  \/ findall(text) = <<>>
  \/ \E i \in DOMAIN findall(text) : ~InBounds(text, i)

\* C24: a /eq command that is rejected, because no token matches the form
\* or because a frequency or gain is out of bounds, leaves the session as
\* it was: no band of the command is applied, also when pairs within the
\* bounds come before the one out of bounds.
C24_RejectedEqLeavesSession ==
  [][(call'.op = "eq_command" /\ obs'.got.file_path # None
        /\ Rejected(call'.arg))
     => /\ ~obs'.ret
        /\ proc' = proc]_vars

\* A command was rejected for its second pair after a first pair within
\* the bounds, for a session that holds bands of an earlier command
C24_Witness ==
  /\ call.op = "eq_command"
  /\ obs.got.file_path # None
  /\ Len(findall(call.arg)) = 2
  /\ InBounds(call.arg, 1)
  /\ ~InBounds(call.arg, 2)
  /\ \E s \in Stored(proc, call.user) : s.settings.eq # <<>>

\* C25: every pair with a frequency in [20, 40000] (after the k
\* multiplier) and a gain in [-20, 20] is accepted: after a command whose
\* pairs are all within the bounds, the eq_bands of the session hold
\* exactly one band for each pair, with its frequency and gain.
C25_PairsInBoundsAccepted ==
  (call.op = "eq_command" /\ obs.got.file_path # None
     /\ ~Rejected(call.arg))
  => /\ obs.ret
     /\ Live(proc, call.user, now) # {}
     /\ \A s \in Live(proc, call.user, now) :
          /\ Len(s.settings.eq) = Len(findall(call.arg))
          /\ \A i \in DOMAIN s.settings.eq :
               /\ s.settings.eq[i].freq = freq_of(findall(call.arg)[i])
               /\ s.settings.eq[i].gain = gain_of(findall(call.arg)[i])

\* A command with the pairs 20 Hz +20 dB and 40 kHz -20 dB, at the limits
\* of both ranges, was applied
C25_Witness ==
  /\ call.op = "eq_command"
  /\ call.arg = <<Token(20, "", "+", 20), Token(40, "K", "-", 20)>>
  /\ obs.ret
  /\ \E s \in Live(proc, call.user, now) : Len(s.settings.eq) = 2

\* C26: a selection of an effect whose name is not in the allow-list is
\* rejected and leaves the effect_names and every other setting of the
\* session as they were.
C26_UnknownEffectRejected ==
  [][(call'.op = "handle_effect_selection" /\ call'.found = "live"
        /\ call'.arg \notin AllowedEffects)
     => proc' = proc]_vars

\* The exits of a run that is over
EndedExits ==
  {"no_file", "eq_failed", "convert_failed", "exception", "delivered"}

\* C27: at confirm time, if the session has no input file or the file is
\* missing from disk, no stage runs, the session is deleted and the user is
\* told to start over.
C27_ConfirmWithoutFile ==
  [][(call'.op = "process_audio"
        /\ (obs'.got.file_path = None \/ obs'.got.file_path \notin proc.files))
     => /\ run'.exit = "no_file"
        /\ run'.invoked = <<>>
        /\ run'.reported
        /\ obs'.got \notin Stored(proc', call'.user)
        /\ Live(proc', call'.user, now) = {}]_vars

\* A confirm found the session of the user with a file that was gone from
\* disk, ran no stage and left no session
C27_Witness ==
  /\ call.op = "process_audio"
  /\ call.found = "live"
  /\ obs.got.file_path # None
  /\ run.exit = "no_file"
  /\ Stored(proc, call.user) = {}

\* C28: a cancel issued while a run of the same user is executing removes
\* the session and its input file at once and does not stop the run; the
\* run then ends on its own, and its ending neither recreates a session nor
\* fails for the lack of one.
C28_CancelDuringRun ==
  [][/\ (call'.op = "cancel_command" /\ run.exit = "running"
           /\ run.user = call'.user)
        => /\ Live(proc', call'.user, now) = {}
           /\ run.input_file \notin proc'.files
           /\ run'.exit = "running"
     /\ (call'.op = "process_audio" /\ call'.arg = TRUE)
        => /\ AllStored(proc') = AllStored(proc)
           /\ run'.exit \in EndedExits]_vars

\* C29: the paths {user_id}_{timestamp}_{stage} are unique per user, time
\* and stage: an upload never writes to the path another upload wrote,
\* also for the same user and back to back.
C29_UploadPathsUnique ==
  [][(call'.op = "handle_audio" /\ obs'.got # None)
     => Path(call'.user, now, "input") \notin proc.files]_vars

\* The files under downloads/ that carry the id of a user
FilesOf(w, u) == {f \in w.files : f.user = u}

\* C30: an operation for user A (get or create, update, delete, expiry of
\* A's session on lookup, an upload or a pipeline run) leaves the session
\* and the files of every other user B as they were, however the
\* operations of the two users interleave.
C30_UsersIndependent ==
  [][\A b \in BothUsers :
       b # call'.user
       => /\ Stored(proc', b) = Stored(proc, b)
          /\ FilesOf(proc', b) = FilesOf(proc, b)]_vars

\* A user cancelled a live session while the other user had a session with
\* its file on disk
C30_Witness ==
  /\ call.op = "cancel_command"
  /\ call.found = "live"
  /\ \E b \in BothUsers \ {call.user} :
       \E s \in Stored(proc, b) : s.file_path \in FilesOf(proc, b)

\* The effects list of a session, as settings.get('effects', []) reads it
EffectsOf(s) == DictGet(s.settings, "effects", <<>>)

\* No name occurs twice in the list
NoDuplicates(list) ==
  \A i, j \in DOMAIN list : list[i] = list[j] => i = j

\* C31: in every state the effect_names of a session hold no name twice
\* and list the effects in the order of their first selection: a selection
\* of a name not yet in the list it read stores that list with the name at
\* its end, and a selection of a name already in it leaves the session
\* unchanged.
C31_EffectsOrderedNoDuplicates ==
  /\ [](\A u \in Users : \A s \in Stored(proc, u) : NoDuplicates(EffectsOf(s)))
  /\ [][call'.op = "handle_effect_selection"
        => IF InList(call'.arg, EffectsOf(obs'.got))
             THEN proc' = proc
             ELSE /\ Live(proc', call'.user, now) # {}
                  /\ \A s \in Live(proc', call'.user, now) :
                       EffectsOf(s) = Append(EffectsOf(obs'.got), call'.arg)]_vars

\* An effect already in a list of two effects was selected again
C31_Witness ==
  /\ call.op = "handle_effect_selection"
  /\ call.found = "live"
  /\ Len(EffectsOf(obs.got)) = 2
  /\ InList(call.arg, EffectsOf(obs.got))
  /\ \E s \in Live(proc, call.user, now) : EffectsOf(s) = EffectsOf(obs.got)

\* The eq list of a session, as settings.get('eq') reads it
EqOf(s) == DictGet(s.settings, "eq", <<>>)

\* C35: in every state every band stored in the eq_bands of any session has
\* its frequency in [20, 40000] Hz and its gain in [-20, 20] dB: no
\* sequence of user actions stores a band out of range.
C35_StoredBandsInRange ==
  \A u \in Users : \A s \in Stored(proc, u) :
    \A i \in DOMAIN EqOf(s) :
      /\ FreqMin <= EqOf(s)[i].freq /\ EqOf(s)[i].freq <= FreqMax
      /\ GainMin <= EqOf(s)[i].gain /\ EqOf(s)[i].gain <= GainMax

\* A session holds the bands 20 Hz +20 dB and 40 kHz -20 dB after commands
\* with pairs out of range were sent
C35_Witness ==
  /\ call.op = "eq_command"
  /\ \E i \in DOMAIN call.arg :
       \/ freq_of(call.arg[i]) > FreqMax
       \/ gain_of(call.arg[i]) < GainMin
  /\ \E s \in Stored(proc, call.user) :
       /\ Len(EqOf(s)) = 2
       /\ \E i, j \in DOMAIN EqOf(s) :
            /\ EqOf(s)[i].freq = FreqMax /\ EqOf(s)[i].gain = GainMin
            /\ EqOf(s)[j].freq = FreqMin /\ EqOf(s)[j].gain = GainMax

\* C40: a successful /eq command replaces the whole eq_bands list of the
\* session with the bands of that command, in command order: the bands an
\* earlier command stored do not remain, and the tokens of the command
\* that do not match the pattern are dropped without the command being
\* rejected.
C40_EqCommandReplacesBands ==
  [][(call'.op = "eq_command" /\ obs'.ret)
     => /\ Live(proc', call'.user, now) # {}
        /\ \A s \in Live(proc', call'.user, now) :
             /\ Len(EqOf(s)) = Len(findall(call'.arg))
             /\ Len(EqOf(s)) <= Len(call'.arg)
             /\ \A i \in DOMAIN EqOf(s) :
                  /\ EqOf(s)[i].freq = freq_of(findall(call'.arg)[i])
                  /\ EqOf(s)[i].gain = gain_of(findall(call'.arg)[i])]_vars

\* A command of one token the pattern does not match and one pair was
\* applied to a session that held two bands: the session holds one band
C40_Witness ==
  /\ call.op = "eq_command"
  /\ obs.ret
  /\ Len(call.arg) = 2
  /\ Len(findall(call.arg)) = 1
  /\ Len(EqOf(obs.got)) = 2
  /\ \E s \in Live(proc, call.user, now) : Len(EqOf(s)) = 1

\* The plugin that implements each effect of the allow-list
PluginNamed ==
  [reverb |-> "Reverb", chorus |-> "Chorus", phaser |-> "Phaser",
   distortion |-> "Distortion", compressor |-> "Compressor",
   delay |-> "Delay", bitcrush |-> "Bitcrush", limiter |-> "Limiter"]

\* The names of the list that are in the allow-list as they are written
AllowedAsWritten(effects) ==
  SelectSeq(effects, LAMBDA e : e \in AllowedEffects)

\* The names of the list that are in the allow-list once in lower case
AllowedInLowerCase(effects) ==
  SelectSeq(effects, LAMBDA e : effect_lower(e) \in AllowedEffects)

C33_FilterShapeByFrequency ==
  (call.op = "apply_eq" /\ obs.ret)
  => /\ run.ret
     /\ Len(run.board) = Len(call.arg)
     /\ \A i \in DOMAIN call.arg :
          LET band == call.arg[i]
              f == run.board[i]
          IN /\ f.cutoff_frequency_hz = band.freq
             /\ f.gain_db = band.gain
             /\ f.filter = IF band.freq < 200 THEN "LowShelfFilter"
                           ELSE IF band.freq > 8000 THEN "HighShelfFilter"
                           ELSE "PeakFilter"
             /\ f.filter = "PeakFilter" => f.q = band.q

\* The stage ran on the bands 200 Hz and 8000 Hz and built two peaking
\* filters
C33_Witness ==
  /\ call.op = "apply_eq"
  /\ obs.ret
  /\ Len(call.arg) = 2
  /\ call.arg[1].freq = 200
  /\ call.arg[2].freq = 8000
  /\ \A i \in DOMAIN run.board : run.board[i].filter = "PeakFilter"

\* The values of an option in a command
ValuesOf(cmd, opt) == {cmd[i].val : i \in {j \in DOMAIN cmd : cmd[j].opt = opt}}

\* The formats Config.SUPPORTED_FORMATS lists as lossless
LosslessFormats == {"flac", "wav", "alac", "ape", "wv", "tta", "aiff", "aif"}

\* C34: for every output format the user can select, the conversion
\* command takes its codec from the fixed format-to-codec mapping, carries
\* no explicit bitrate argument when the format is lossless, and carries
\* the configured bitrate argument when the format is lossy.
C34_CodecAndBitrateByFormat ==
  (call.op = "convert_audio" /\ call.arg \in ButtonFormats)
  => /\ call.arg \in DOMAIN codec_map
     /\ ValuesOf(run.cmd, "-c:a") = {codec_map[call.arg]}
     /\ ValuesOf(run.cmd, "-b:a")
          = IF call.arg \in LosslessFormats
              THEN {}
              ELSE {DictGet(obs.got.settings, "bitrate", "320k")}

\* C36: the cleanup task suspends, sleeping the configured interval, in
\* every iteration of its loop, also after an iteration that raised: a
\* pass that starts at the top of the loop body goes into the sleep, so the
\* task never spins without yielding and the handlers always get to run.
C36_TaskSuspendsEveryIteration ==
  /\ [][(taskPc \in {"scheduled", "try"} /\ taskPc' # taskPc)
        => taskPc' = "suspended"]_vars
  /\ []<>LoopFree

\* C37: every session get_user_session returns is stored in the active
\* backend: an update for the same user right after it returns true, and a
\* second get_user_session returns that same session and creates no other.
C37_ReturnedSessionIsStored ==
  /\ [](call.op = "continue_editing" => obs.got \in Stored(proc, call.user))
  /\ []((call.op = "handle_audio" /\ obs.got # None) => obs.ret)
  /\ [][(call.op = "continue_editing" /\ call'.op = "continue_editing"
           /\ call'.user = call.user /\ now' = now)
        => /\ obs'.got = obs.got
           /\ proc' = proc]_vars

\* The setting a configuration handler changes
OwnKey(op) ==
  IF op = "handle_bitrate_selection" THEN "bitrate" ELSE "effects"

NormalizeOf(s) == DictGet(s.settings, "normalize", FALSE)

====
